---- MODULE Spec2Model ----
(***************************************************************************)
(* MENACE: Matchbox Educable Noughts and Crosses Engine (src/main.py).     *)
(* The engine (playing O) keeps one matchbox of beads per board state,     *)
(* samples a bead to move, and after each game adds a bead (win) or        *)
(* removes one (loss, only when more than one is left) for every           *)
(* (matchbox, move) pair it played.                                        *)
(***************************************************************************)
EXTENDS Integers, Sequences, FiniteSets, TLC

\* ---------------------------------------------------------------- bounds
\* play_game is called at most MaxGames times on one engine.
MaxGames == 2
\* MENACEEngine(initial_bead_count) is constructed with 0..MaxInit.
MaxInit == 2
\* The opponent strategy returns one of the first OppChoices Empty cells
\* (row-major order) of the board it is given.
OppChoices == 1
\* The loop body of play_game runs at most MaxMoves times over all games.
MaxMoves == 10
\* A matchbox is used through direct calls for boards of at most MaxMarks marks.
MaxMarks == 1
\* At most MaxCalls direct calls of choose_move, add_beads and remove_beads.
MaxCalls == 2
\* add_beads and remove_beads are called with a count of 1..MaxCount.
MaxCount == 2

\* ------------------------------------------------------------ Cell, Board
EMPTY == " "
O == "O"
X == "X"
Cell == {EMPTY, O, X}

Idx == 0..2
Moves == Idx \X Idx

\* Board(): a 3x3 grid of Cell.EMPTY
Board == [r \in Idx |-> [c \in Idx |-> EMPTY]]

get_cell(grid, row, col) == grid[row][col]

set_cell(grid, row, col, cell) ==
    [grid EXCEPT ![row] = [@ EXCEPT ![col] = cell]]

\* BoardState(grid): an immutable copy, cell by cell, of the grid
BoardState(grid) == [r \in Idx |-> [c \in Idx |-> grid[r][c]]]

\* ---------------------------------------------------------------- Matchbox
\* what `for _ in range(count): beads.append(Bead(move))` appends
Beads(move, count) == IF count > 0 THEN [i \in 1..count |-> move] ELSE <<>>

\* the beads appended by Matchbox.__init__ for cells n..8 in row-major order
RECURSIVE InitBeads(_, _, _)
InitBeads(board_state, initial_bead_count, n) ==
    IF n > 8 THEN <<>>
    ELSE LET row == n \div 3
             col == n % 3
         IN  (IF get_cell(board_state, row, col) = EMPTY
                 THEN Beads(<<row, col>>, initial_bead_count)
                 ELSE <<>>)
             \o InitBeads(board_state, initial_bead_count, n + 1)

\* Matchbox.__init__ adding beads for the occupied cells as well
MatchboxEveryCell(board_state, initial_bead_count) ==
    [board_state |-> board_state,
     beads |-> InitBeads(Board, initial_bead_count, 0)]

\* Matchbox.__init__ with one bead too few per legal move
MatchboxOneShort(board_state, initial_bead_count) ==
    [board_state |-> board_state,
     beads |-> InitBeads(board_state, initial_bead_count - 1, 0)]

Matchbox(board_state, initial_bead_count) ==
    [board_state |-> board_state,
     beads |-> InitBeads(board_state, initial_bead_count, 0)]

\* add_beads without the check that the move is Empty in the board state
add_beads_unchecked(matchbox, move, count) ==
    [ok |-> TRUE,
     box |-> [matchbox EXCEPT !.beads = @ \o Beads(move, count)]]

\* add_beads: [ok |-> FALSE] models the ValueError, the box is then untouched
add_beads(matchbox, move, count) ==
    IF get_cell(matchbox.board_state, move[1], move[2]) # EMPTY
       THEN [ok |-> FALSE, box |-> matchbox]
       ELSE [ok |-> TRUE,
             box |-> [matchbox EXCEPT !.beads = @ \o Beads(move, count)]]

\* the loop of remove_beads over beads[i..], with `removed` beads skipped so far
RECURSIVE RemoveLoop(_, _, _, _, _)
RemoveLoop(beads, move, count, i, removed) ==
    IF i > Len(beads) THEN <<>>
    ELSE IF removed < count /\ beads[i] = move
            THEN RemoveLoop(beads, move, count, i + 1, removed + 1)
            ELSE <<beads[i]>> \o RemoveLoop(beads, move, count, i + 1, removed)

\* remove_beads that forgets to stop after `count` beads
remove_beads_all(matchbox, move, count) ==
    [matchbox EXCEPT !.beads = RemoveLoop(matchbox.beads, move, Len(matchbox.beads), 1, 0)]

remove_beads(matchbox, move, count) ==
    [matchbox EXCEPT !.beads = RemoveLoop(matchbox.beads, move, count, 1, 0)]

get_bead_count(matchbox, move) ==
    Cardinality({i \in 1..Len(matchbox.beads) : matchbox.beads[i] = move})

\* ------------------------------------------------------------ check_winner
\* rows, then columns, then the two diagonals
Lines(grid) ==
    [n \in 1..8 |->
        IF n <= 3 THEN [i \in Idx |-> grid[n - 1][i]]
        ELSE IF n <= 6 THEN [i \in Idx |-> grid[i][n - 4]]
        ELSE IF n = 7 THEN [i \in Idx |-> grid[i][i]]
        ELSE [i \in Idx |-> grid[i][2 - i]]]

RECURSIVE ScanLines(_, _)
ScanLines(lines, n) ==
    IF n > Len(lines) THEN "None"
    ELSE IF \A i \in Idx : lines[n][i] = O THEN "MENACE"
    ELSE IF \A i \in Idx : lines[n][i] = X THEN "opponent"
    ELSE ScanLines(lines, n + 1)

\* check_winner without its check for a draw
check_winner_no_draw(grid) == ScanLines(Lines(grid), 1)

\* check_winner looking for the engine's lines only
check_winner_no_opponent(grid) ==
    IF \E n \in 1..8 : \A i \in Idx : Lines(grid)[n][i] = O THEN "MENACE"
    ELSE IF \A r \in Idx : \A c \in Idx : grid[r][c] # EMPTY THEN "draw"
    ELSE "None"

\* check_winner looking for a draw before it looks for a line
check_winner_draw_first(grid) ==
    IF \A r \in Idx : \A c \in Idx : grid[r][c] # EMPTY THEN "draw"
    ELSE ScanLines(Lines(grid), 1)

check_winner(grid) ==
    LET won == ScanLines(Lines(grid), 1)
    IN  IF won # "None" THEN won
        ELSE IF \A r \in Idx : \A c \in Idx : grid[r][c] # EMPTY THEN "draw"
        ELSE "None"

\* ------------------------------------------------------------------- state
VARIABLES
    initial_bead_count,  \* MENACEEngine.initial_bead_count
    matchboxes,          \* MENACEEngine.matchboxes: BoardState -> Matchbox object
    boxes,               \* the Matchbox objects, by object identity 1..Len(boxes)
    game_history,        \* MENACEEngine.game_history: <<Matchbox object, move>>
    board,               \* play_game: board.grid
    current_player,      \* play_game: current_player
    result,              \* play_game: result of the last check_winner
    pc,                  \* where the caller and play_game are
    err,                 \* the exception that ended the last call, if any
    moves,               \* loop iterations of the current play_game call
    games,               \* play_game calls made so far
    updates,             \* update_learning calls of the current play_game call
    outcome,             \* argument of the last update_learning call
    total,               \* loop iterations of all play_game calls so far
    calls                \* direct calls of Matchbox and engine methods so far

vars == <<initial_bead_count, matchboxes, boxes, game_history, board,
          current_player, result, pc, err, moves, games, updates, outcome, total,
          calls>>

\* MENACEEngine.__init__
Init ==
    /\ initial_bead_count \in 0..MaxInit
    /\ matchboxes = <<>>
    /\ boxes = <<>>
    /\ game_history = <<>>
    /\ board = Board
    /\ current_player = "MENACE"
    /\ result = "None"
    /\ pc = "idle"
    /\ err = "none"
    /\ moves = 0
    /\ games = 0
    /\ updates = 0
    /\ outcome = "none"
    /\ total = 0
    /\ calls = 0

\* get_matchbox that builds a new Matchbox on every call
get_matchbox_fresh(mbs, bxs, board_state, ibc) ==
    [matchboxes |-> (board_state :> Len(bxs) + 1) @@ mbs,
     boxes |-> Append(bxs, Matchbox(board_state, ibc)),
     ref |-> Len(bxs) + 1]

\* get_matchbox: the mapping and the objects after the call, and the object returned
get_matchbox(mbs, bxs, board_state, ibc) ==
    IF board_state \notin DOMAIN mbs
       THEN [matchboxes |-> mbs @@ (board_state :> Len(bxs) + 1),
             boxes |-> Append(bxs, Matchbox(board_state, ibc)),
             ref |-> Len(bxs) + 1]
       ELSE [matchboxes |-> mbs, boxes |-> bxs, ref |-> mbs[board_state]]

\* choose_move drawing from the Empty cells of the board state instead of
\* from the beads
choose_move_any_legal(mbs, bxs, history, board_state, ibc) ==
    LET got == get_matchbox(mbs, bxs, board_state, ibc)
        beads == got.boxes[got.ref].beads
    IN  IF beads = <<>>
           THEN {[ok |-> FALSE, matchboxes |-> got.matchboxes, boxes |-> got.boxes,
                  game_history |-> history, move |-> <<>>]}
           ELSE {[ok |-> TRUE, matchboxes |-> got.matchboxes, boxes |-> got.boxes,
                  game_history |-> Append(history, <<got.ref, m>>),
                  move |-> m] :
                    m \in {mv \in Moves : get_cell(board_state, mv[1], mv[2]) = EMPTY}}

\* choose_move: one result per bead random.choice may return, each with the
\* mapping, the objects and the history after the call; ok = FALSE models the
\* ValueError for a matchbox without beads
choose_move(mbs, bxs, history, board_state, ibc) ==
    LET got == get_matchbox(mbs, bxs, board_state, ibc)
        beads == got.boxes[got.ref].beads
    IN  IF beads = <<>>
           THEN {[ok |-> FALSE, matchboxes |-> got.matchboxes, boxes |-> got.boxes,
                  game_history |-> history, move |-> <<>>]}
           ELSE {[ok |-> TRUE, matchboxes |-> got.matchboxes, boxes |-> got.boxes,
                  game_history |-> Append(history, <<got.ref, beads[i]>>),
                  move |-> beads[i]] : i \in 1..Len(beads)}

\* update_learning's loop with the loss guard `> 0` and with a draw handled
\* like a loss
RECURSIVE LearnLoopNoFloor(_, _, _, _)
LearnLoopNoFloor(bxs, history, i, out) ==
    IF i > Len(history) THEN [ok |-> TRUE, boxes |-> bxs]
    ELSE LET ref == history[i][1]
             move == history[i][2]
         IN  IF out = 1
                THEN LET added == add_beads(bxs[ref], move, 1)
                     IN  IF added.ok
                            THEN LearnLoopNoFloor([bxs EXCEPT ![ref] = added.box],
                                                  history, i + 1, out)
                            ELSE [ok |-> FALSE, boxes |-> bxs]
             ELSE IF out = -1
                THEN IF get_bead_count(bxs[ref], move) > 0
                        THEN LearnLoopNoFloor(
                                 [bxs EXCEPT ![ref] = remove_beads(@, move, 1)],
                                 history, i + 1, out)
                        ELSE LearnLoopNoFloor(bxs, history, i + 1, out)
             ELSE LearnLoopNoFloor(bxs, history, i + 1, out)

RECURSIVE LearnLoopDrawAsLoss(_, _, _, _)
LearnLoopDrawAsLoss(bxs, history, i, out) ==
    IF i > Len(history) THEN [ok |-> TRUE, boxes |-> bxs]
    ELSE LET ref == history[i][1]
             move == history[i][2]
         IN  IF out = 1
                THEN LET added == add_beads(bxs[ref], move, 1)
                     IN  IF added.ok
                            THEN LearnLoopDrawAsLoss([bxs EXCEPT ![ref] = added.box],
                                                     history, i + 1, out)
                            ELSE [ok |-> FALSE, boxes |-> bxs]
             ELSE IF get_bead_count(bxs[ref], move) > 1
                THEN LearnLoopDrawAsLoss(
                         [bxs EXCEPT ![ref] = remove_beads(@, move, 1)],
                         history, i + 1, out)
                ELSE LearnLoopDrawAsLoss(bxs, history, i + 1, out)

\* update_learning's loop over game_history[i..]; ok = FALSE when add_beads raised
RECURSIVE LearnLoop(_, _, _, _)
LearnLoop(bxs, history, i, out) ==
    IF i > Len(history) THEN [ok |-> TRUE, boxes |-> bxs]
    ELSE LET ref == history[i][1]
             move == history[i][2]
         IN  IF out = 1
                THEN LET added == add_beads(bxs[ref], move, 1)
                     IN  IF added.ok
                            THEN LearnLoop([bxs EXCEPT ![ref] = added.box],
                                           history, i + 1, out)
                            ELSE [ok |-> FALSE, boxes |-> bxs]
             ELSE IF out = -1
                THEN IF get_bead_count(bxs[ref], move) > 1
                        THEN LearnLoop([bxs EXCEPT ![ref] = remove_beads(@, move, 1)],
                                       history, i + 1, out)
                        ELSE LearnLoop(bxs, history, i + 1, out)
             ELSE LearnLoop(bxs, history, i + 1, out)

\* update_learning that learns from the last move of the game only
update_learning_last_move(bxs, history, out) ==
    LET learnt == LearnLoop(bxs, history, Len(history), out)
    IN  [ok |-> learnt.ok,
         boxes |-> learnt.boxes,
         game_history |-> IF learnt.ok THEN <<>> ELSE history]

\* update_learning that clears the history only when it changed a matchbox
update_learning_keep_history(bxs, history, out) ==
    LET learnt == LearnLoop(bxs, history, 1, out)
    IN  [ok |-> learnt.ok,
         boxes |-> learnt.boxes,
         game_history |-> IF learnt.ok /\ learnt.boxes # bxs THEN <<>> ELSE history]

\* update_learning going through the history twice
update_learning_twice(bxs, history, out) ==
    LET learnt == LearnLoop(bxs, history \o history, 1, out)
    IN  [ok |-> learnt.ok,
         boxes |-> learnt.boxes,
         game_history |-> IF learnt.ok THEN <<>> ELSE history]

\* update_learning: the loop, then the history is cleared (not reached when
\* add_beads raised)
update_learning(bxs, history, out) ==
    LET learnt == LearnLoop(bxs, history, 1, out)
    IN  [ok |-> learnt.ok,
         boxes |-> learnt.boxes,
         game_history |-> IF learnt.ok THEN <<>> ELSE history]

\* the Empty cells of a grid in row-major order
RECURSIVE EmptyCells(_, _)
EmptyCells(grid, n) ==
    IF n > 8 THEN <<>>
    ELSE (IF grid[n \div 3][n % 3] = EMPTY THEN <<(<<n \div 3, n % 3>>)>> ELSE <<>>)
         \o EmptyCells(grid, n + 1)

\* the moves an opponent_move_func may return on this board
OpponentMoves(grid) ==
    LET legal_moves == EmptyCells(grid, 0)
    IN  {legal_moves[i] : i \in 1..(IF Len(legal_moves) < OppChoices
                                       THEN Len(legal_moves) ELSE OppChoices)}

\* play_game giving the first turn to the opponent
PlayGameOpponentFirst ==
    /\ pc \in {"idle", "done", "error"}
    /\ games < MaxGames
    /\ board' = Board
    /\ current_player' = "opponent"
    /\ game_history' = <<>>
    /\ result' = "None"
    /\ pc' = "loop"
    /\ err' = "none"
    /\ moves' = 0
    /\ games' = games + 1
    /\ updates' = 0
    /\ UNCHANGED <<initial_bead_count, matchboxes, boxes, outcome, total, calls>>

\* play_game up to the while loop
PlayGame ==
    /\ pc \in {"idle", "done", "error"}
    /\ games < MaxGames
    /\ board' = Board
    /\ current_player' = "MENACE"
    /\ game_history' = <<>>
    /\ result' = "None"
    /\ pc' = "loop"
    /\ err' = "none"
    /\ moves' = 0
    /\ games' = games + 1
    /\ updates' = 0
    /\ UNCHANGED <<initial_bead_count, matchboxes, boxes, outcome, total, calls>>

\* the loop body leaving the turn with the player who has just moved
AfterMoveNoAlternate(grid) ==
    /\ board' = grid
    /\ moves' = moves + 1
    /\ total' = total + 1
    /\ result' = check_winner(grid)
    /\ pc' = (IF check_winner(grid) # "None" THEN "update" ELSE "loop")
    /\ UNCHANGED current_player

\* what follows a move in the loop body: check_winner, then leave for
\* update_learning or alternate turns
AfterMove(grid) ==
    /\ board' = grid
    /\ moves' = moves + 1
    /\ total' = total + 1
    /\ result' = check_winner(grid)
    /\ IF check_winner(grid) # "None"
          THEN pc' = "update" /\ UNCHANGED current_player
          ELSE /\ pc' = "loop"
               /\ current_player' = (IF current_player = "MENACE"
                                        THEN "opponent" ELSE "MENACE")

\* one loop iteration on the engine's turn: choose_move, set_cell
MenaceMove ==
    /\ pc = "loop"
    /\ total < MaxMoves
    /\ current_player = "MENACE"
    /\ \E chosen \in choose_move(matchboxes, boxes, game_history,
                                  BoardState(board), initial_bead_count) :
          /\ matchboxes' = chosen.matchboxes
          /\ boxes' = chosen.boxes
          /\ game_history' = chosen.game_history
          /\ IF chosen.ok
                THEN /\ AfterMove(set_cell(board, chosen.move[1], chosen.move[2], O))
                     /\ UNCHANGED err
                ELSE /\ pc' = "error"
                     /\ err' = "NoLegalMove"
                     /\ UNCHANGED <<board, current_player, result, moves, total>>
    /\ UNCHANGED <<initial_bead_count, games, updates, outcome, calls>>

\* one loop iteration on the opponent's turn: opponent_move_func, set_cell
OpponentMove ==
    /\ pc = "loop"
    /\ total < MaxMoves
    /\ current_player = "opponent"
    /\ \E move \in OpponentMoves(board) :
          AfterMove(set_cell(board, move[1], move[2], X))
    /\ UNCHANGED <<initial_bead_count, matchboxes, boxes, game_history, err,
                   games, updates, outcome, calls>>

\* play_game passing a draw on as a loss
OutcomeOfDrawAsLoss(res) == IF res = "MENACE" THEN 1 ELSE -1

\* the Outcome play_game passes to update_learning
OutcomeOf(res) == IF res = "MENACE" THEN 1 ELSE IF res = "opponent" THEN -1 ELSE 0

\* play_game's call of update_learning and its return
UpdateLearning ==
    /\ pc = "update"
    /\ LET learnt == update_learning(boxes, game_history, OutcomeOf(result))
       IN  /\ boxes' = learnt.boxes
           /\ game_history' = learnt.game_history
           /\ IF learnt.ok
                 THEN pc' = "done" /\ UNCHANGED err
                 ELSE pc' = "error" /\ err' = "IllegalMove"
    /\ updates' = updates + 1
    /\ outcome' = OutcomeOf(result)
    /\ UNCHANGED <<initial_bead_count, matchboxes, board, current_player, result,
                   moves, games, total, calls>>

Next == PlayGame \/ MenaceMove \/ OpponentMove \/ UpdateLearning

Spec == Init /\ [][Next]_vars

\* ------------------------------------------------------------- properties
\* a line of the board is uniformly `mark`
HasLine(grid, mark) ==
    \E n \in 1..8 : \A i \in Idx : Lines(grid)[n][i] = mark

\* number of cells of the grid holding `mark`
CountCells(grid, mark) ==
    Cardinality({m \in Moves : grid[m[1]][m[2]] = mark})

\* the player whose turn it is has a move: the engine's matchbox for the board
\* holds a bead, the opponent has an Empty cell to return
NextMovePossible ==
    IF current_player = "MENACE"
       THEN LET board_state == BoardState(board)
            IN  IF board_state \in DOMAIN matchboxes
                   THEN boxes[matchboxes[board_state]].beads # <<>>
                   ELSE Matchbox(board_state, initial_bead_count).beads # <<>>
       ELSE OpponentMoves(board) # {}

\* C1: with initial_bead_count >= 1 and an opponent that returns Empty cells,
\* a call of play_game makes at most 9 moves; while it is in the loop fewer
\* than 9 moves were made and the next move can be made without an error; it
\* leaves the loop with one of the results MENACE, opponent, draw; and when
\* the 9th move completes no line the result is draw.
PlayGameTerminates ==
    initial_bead_count >= 1 =>
        /\ moves <= 9
        /\ pc # "error"
        /\ (pc = "loop" =>
               /\ moves < 9
               /\ NextMovePossible)
        /\ (pc \in {"update", "done"} => result \in {"MENACE", "opponent", "draw"})
        /\ (moves = 9 =>
               /\ pc \in {"update", "done"}
               /\ (result = "draw" <=> ~HasLine(board, O) /\ ~HasLine(board, X)))

\* C1 witness: a game that was drawn on its 9th move has returned
DrawOnNinthMove ==
    initial_bead_count >= 1 /\ pc = "done" /\ moves = 9 /\ result = "draw"

\* C2, the states: update_learning is called at most once per game, not at
\* all while the board is not terminal, and after the game its argument was
\* +1 exactly for an O line, -1 exactly for an X line, 0 exactly for a draw.
UpdateInv ==
    /\ updates <= 1
    /\ (pc = "loop" => updates = 0 /\ ~HasLine(board, O) /\ ~HasLine(board, X)
                                   /\ CountCells(board, EMPTY) > 0)
    /\ (pc = "update" => updates = 0)
    /\ (pc = "done" =>
           /\ updates = 1
           /\ (outcome = 1 <=> HasLine(board, O))
           /\ (outcome = -1 <=> HasLine(board, X) /\ ~HasLine(board, O))
           /\ (outcome = 0 <=> ~HasLine(board, O) /\ ~HasLine(board, X)
                                 /\ CountCells(board, EMPTY) = 0))

\* C2, the steps: the move that makes the board terminal is followed at once
\* by the update_learning call, and the board of a game changes neither
\* during nor after that call.
UpdateStep ==
    /\ (pc = "loop" /\ board' # board /\ check_winner(board') # "None"
           => pc' = "update")
    /\ (pc = "update" => updates' = updates + 1 /\ board' = board)
    /\ (updates' # updates /\ updates' > 0 => pc = "update")
    /\ (pc \in {"update", "done"} /\ board' # board
           => games' = games + 1 /\ board' = Board)

\* C2: update_learning is invoked exactly once per game, right after the
\* first terminal move, with the outcome that matches the result, and no move
\* is applied to the board afterwards.
UpdateOnceAfterTerminalMove == []UpdateInv /\ [][UpdateStep]_vars

\* C2 witness: a game the opponent won has been learnt from
LossLearnt ==
    pc = "done" /\ updates = 1 /\ outcome = -1 /\ HasLine(board, X)

EntryCount(bxs, entry) == get_bead_count(bxs[entry[1]], entry[2])

\* move is a legal move of the matchbox: Empty in its board state
LegalIn(matchbox, move) == get_cell(matchbox.board_state, move[1], move[2]) = EMPTY

\* one step keeps the loss floor, for every move of every matchbox
LossFloorStep ==
    \A ref \in 1..Len(boxes) : \A move \in Moves :
        LET before == get_bead_count(boxes[ref], move)
            after == get_bead_count(boxes'[ref], move)
        IN  /\ (before >= 1 => after >= 1)
            /\ (after < before =>
                  /\ pc = "update"
                  /\ outcome' = -1
                  /\ before > 1
                  /\ after = before - 1)

\* C4: in every step, for every move of every matchbox: a count of at least 1
\* stays at least 1, and a count goes down only in an update_learning(Loss)
\* call, by exactly 1, from a count greater than 1.
LossFloor == [][LossFloorStep]_vars

\* C4 witness: a lost game was learnt from with every played count at 1, and
\* the counts of the first matchbox are all still 1
LossHeldAtOne ==
    /\ initial_bead_count = 1
    /\ pc = "done"
    /\ outcome = -1
    /\ Len(boxes[1].beads) = 9

MappingStep ==
    /\ DOMAIN matchboxes \subseteq DOMAIN matchboxes'
    /\ \A key \in DOMAIN matchboxes : matchboxes'[key] = matchboxes[key]
    /\ Len(boxes') >= Len(boxes)
    /\ \A ref \in 1..Len(boxes) : boxes'[ref].board_state = boxes[ref].board_state
    /\ (/\ pc = "loop"
        /\ current_player = "MENACE"
        /\ BoardState(board) \in DOMAIN matchboxes)
       => /\ boxes' = boxes
          /\ matchboxes' = matchboxes
          /\ (game_history' # game_history =>
                game_history'[Len(game_history')][1] = matchboxes[BoardState(board)])

\* C6: in every step the mapping keeps every key bound to the same Matchbox
\* object, no object changes its board state, and a choose_move on a board
\* state that is already a key returns the object of that key with its beads
\* as they are, creating nothing.
MappingAppendOnly == [][MappingStep]_vars

\* C6 witness: the second game has moved from the first matchbox, which holds
\* the bead counts the first game left in it
MovedFromLearntMatchbox ==
    /\ initial_bead_count >= 1
    /\ games = 2
    /\ Len(game_history) >= 1
    /\ game_history[1][1] = 1
    /\ boxes[1] # Matchbox(boxes[1].board_state, initial_bead_count)

\* C7: whenever play_game calls update_learning(1), the call raises nothing
\* and every recorded (matchbox, move) has exactly one bead more after it.
WinAddsOneBead ==
    (pc = "update" /\ OutcomeOf(result) = 1) =>
        LET learnt == update_learning(boxes, game_history, OutcomeOf(result))
        IN  /\ learnt.ok
            /\ \A i \in 1..Len(game_history) :
                  EntryCount(learnt.boxes, game_history[i])
                      = EntryCount(boxes, game_history[i]) + 1

\* C7 witness: a game won with three engine moves has been learnt from
WinLearnt ==
    /\ pc = "done"
    /\ outcome = 1
    /\ moves = 5
    /\ Len(boxes[1].beads) = 9 * initial_bead_count + 1

\* C8: whenever play_game calls update_learning(-1), every recorded
\* (matchbox, move) with more than one bead has exactly one bead less after
\* it, and one with exactly one bead still has one.
LossRemovesOneBeadAboveOne ==
    (pc = "update" /\ OutcomeOf(result) = -1) =>
        LET learnt == update_learning(boxes, game_history, OutcomeOf(result))
        IN  /\ learnt.ok
            /\ \A i \in 1..Len(game_history) :
                  LET before == EntryCount(boxes, game_history[i])
                      after == EntryCount(learnt.boxes, game_history[i])
                  IN  /\ before >= 1
                      /\ (before > 1 => after = before - 1)
                      /\ (before = 1 => after = 1)

\* C8 witness: a lost game was learnt from and took one of the two beads of
\* the move played from the first matchbox
LossTookOneBead ==
    /\ initial_bead_count = 2
    /\ pc = "done"
    /\ outcome = -1
    /\ Len(boxes[1].beads) = 17

\* C9: whenever play_game calls update_learning(0), the call raises nothing
\* and leaves every matchbox as it is; after a drawn first game every
\* matchbox of the engine is as it was created.
DrawMutatesNothing ==
    /\ (pc = "update" /\ OutcomeOf(result) = 0) =>
          LET learnt == update_learning(boxes, game_history, OutcomeOf(result))
          IN  learnt.ok /\ learnt.boxes = boxes
    /\ (pc = "done" /\ outcome = 0 /\ games = 1) =>
          \A ref \in 1..Len(boxes) :
              boxes[ref] = Matchbox(boxes[ref].board_state, initial_bead_count)

\* C9 witness: a drawn game with two beads per move has been learnt from
DrawLearnt ==
    /\ initial_bead_count = 2
    /\ pc = "done"
    /\ outcome = 0
    /\ Len(boxes) = 5

\* C10: the history is empty whenever no game is running; while a game runs
\* it holds exactly the engine's moves of this game, in order, each with the
\* matchbox of the board it was made on; and update_learning empties it for
\* each of the three outcomes.
HistoryOfThisGameOnly ==
    /\ (pc \in {"idle", "done"} => game_history = <<>>)
    /\ (pc \in {"loop", "update"} =>
          /\ Len(game_history) = CountCells(board, O)
          /\ \A i \in 1..Len(game_history) :
                LET state == boxes[game_history[i][1]].board_state
                    move == game_history[i][2]
                IN  /\ CountCells(state, O) = i - 1
                    /\ get_cell(state, move[1], move[2]) = EMPTY
                    /\ get_cell(board, move[1], move[2]) = O
                    /\ \A m \in Moves :
                          get_cell(state, m[1], m[2]) # EMPTY =>
                              get_cell(state, m[1], m[2]) = get_cell(board, m[1], m[2]))
    /\ (pc = "update" =>
          update_learning(boxes, game_history, OutcomeOf(result)).game_history = <<>>)

\* C10 witness: the second game on the engine has been learnt from
SecondGameLearnt ==
    /\ initial_bead_count >= 1
    /\ games = 2
    /\ pc = "done"
    /\ updates = 1

\* ------------------------------------------------------------ direct calls
\* The classes used without play_game: a caller fills a Board cell by cell,
\* asks check_winner about it, or takes the engine's matchbox for it and
\* calls choose_move, add_beads and remove_beads on it.

\* number of non-Empty cells of the grid
Marks(grid) == 9 - CountCells(grid, EMPTY)

\* the Matchbox object the engine holds for the caller's board
TheBox == matchboxes[BoardState(board)]

\* board.set_cell(row, col, cell)
SetCell ==
    /\ pc = "idle"
    /\ \E row \in Idx, col \in Idx, cell \in Cell :
          board' = set_cell(board, row, col, cell)
    /\ UNCHANGED <<initial_bead_count, matchboxes, boxes, game_history,
                   current_player, result, pc, err, moves, games, updates,
                   outcome, total, calls>>

\* result = check_winner(board)
CheckWinner ==
    /\ pc = "idle"
    /\ result' = check_winner(board)
    /\ pc' = "checked"
    /\ UNCHANGED <<initial_bead_count, matchboxes, boxes, game_history, board,
                   current_player, err, moves, games, updates, outcome, total,
                   calls>>

\* engine.get_matchbox(BoardState(board)) for a board without a matchbox
GetMatchbox ==
    /\ pc = "idle"
    /\ Marks(board) <= MaxMarks
    /\ LET got == get_matchbox(matchboxes, boxes, BoardState(board),
                               initial_bead_count)
       IN  /\ matchboxes' = got.matchboxes
           /\ boxes' = got.boxes
    /\ pc' = "box"
    /\ UNCHANGED <<initial_bead_count, game_history, board, current_player,
                   result, err, moves, games, updates, outcome, total, calls>>

\* engine.choose_move(BoardState(board))
ChooseMove ==
    /\ pc \in {"idle", "box"}
    /\ Marks(board) <= MaxMarks
    /\ calls < MaxCalls
    /\ \E chosen \in choose_move(matchboxes, boxes, game_history,
                                  BoardState(board), initial_bead_count) :
          /\ matchboxes' = chosen.matchboxes
          /\ boxes' = chosen.boxes
          /\ game_history' = chosen.game_history
          /\ err' = (IF chosen.ok THEN "none" ELSE "NoLegalMove")
    /\ pc' = "box"
    /\ calls' = calls + 1
    /\ UNCHANGED <<initial_bead_count, board, current_player, result, moves,
                   games, updates, outcome, total>>

\* matchbox.add_beads(move, count) on the engine's matchbox for the board
AddBeads ==
    /\ pc = "box"
    /\ calls < MaxCalls
    /\ \E move \in Moves, count \in 1..MaxCount :
          LET added == add_beads(boxes[TheBox], move, count)
          IN  /\ boxes' = [boxes EXCEPT ![TheBox] = added.box]
              /\ err' = (IF added.ok THEN "none" ELSE "IllegalMove")
    /\ calls' = calls + 1
    /\ UNCHANGED <<initial_bead_count, matchboxes, game_history, board,
                   current_player, result, pc, moves, games, updates, outcome,
                   total>>

\* matchbox.remove_beads(move, count) on the engine's matchbox for the board
RemoveBeads ==
    /\ pc = "box"
    /\ calls < MaxCalls
    /\ \E move \in Moves, count \in 1..MaxCount :
          boxes' = [boxes EXCEPT ![TheBox] = remove_beads(boxes[TheBox], move, count)]
    /\ err' = "none"
    /\ calls' = calls + 1
    /\ UNCHANGED <<initial_bead_count, matchboxes, game_history, board,
                   current_player, result, pc, moves, games, updates, outcome,
                   total>>

ApiNext ==
    SetCell \/ CheckWinner \/ GetMatchbox \/ ChooseMove \/ AddBeads \/ RemoveBeads

ApiSpec == Init /\ [][ApiNext]_vars

\* C11: choose_move on a matchbox holding at least one bead returns only
\* moves of which the matchbox holds a bead, every such move is a possible
\* result, and the call appends the one entry (that matchbox, the move) to
\* the history, keeping the earlier entries and every matchbox as it was; on
\* a matchbox without beads it fails with the no-legal-move error and
\* records nothing.
ChooseMoveContract ==
    /\ (pc \in {"idle", "box"} =>
          LET board_state == BoardState(board)
              got == get_matchbox(matchboxes, boxes, board_state, initial_bead_count)
              matchbox == got.boxes[got.ref]
              results == choose_move(matchboxes, boxes, game_history, board_state,
                                     initial_bead_count)
          IN  /\ results # {}
              /\ (board_state \in DOMAIN matchboxes =>
                    got.boxes = boxes /\ got.ref = matchboxes[board_state])
              /\ \A chosen \in results :
                    /\ chosen.boxes = got.boxes
                    /\ chosen.matchboxes = got.matchboxes
                    /\ IF Len(matchbox.beads) >= 1
                          THEN /\ chosen.ok
                               /\ chosen.move \in Moves
                               /\ get_bead_count(matchbox, chosen.move) >= 1
                               /\ Len(chosen.game_history) = Len(game_history) + 1
                               /\ chosen.game_history[Len(chosen.game_history)]
                                     = <<got.ref, chosen.move>>
                               /\ SubSeq(chosen.game_history, 1, Len(game_history))
                                     = game_history
                          ELSE /\ ~chosen.ok
                               /\ chosen.game_history = game_history
              /\ \A move \in Moves :
                    get_bead_count(matchbox, move) >= 1 =>
                        \E chosen \in results : chosen.ok /\ chosen.move = move)
    /\ (err = "NoLegalMove" => pc = "box" /\ boxes[TheBox].beads = <<>>)

\* C11 witness: choose_move was called twice on a matchbox, the second call
\* with the first call's entry in the history
ChoseTwice ==
    /\ initial_bead_count >= 1
    /\ pc = "box"
    /\ Len(game_history) = 2
    /\ game_history[1][1] = TheBox
    /\ game_history[2][1] = TheBox

\* what C12 says of a matchbox built for board_state with k beads per move
FreshlyBuilt(matchbox, board_state, k) ==
    /\ matchbox.board_state = board_state
    /\ \A move \in Moves :
          get_bead_count(matchbox, move) =
              (IF get_cell(board_state, move[1], move[2]) = EMPTY THEN k ELSE 0)
    /\ Len(matchbox.beads) = k * CountCells(board_state, EMPTY)

\* C12: a newly constructed Matchbox(state, k) holds exactly k beads for
\* every cell Empty in state and none for an occupied cell, k times the
\* number of Empty cells in total; so does the matchbox the engine builds
\* for a board on the first get_matchbox or choose_move call.
MatchboxHoldsKPerEmptyCell ==
    /\ (pc = "idle" =>
          FreshlyBuilt(Matchbox(BoardState(board), initial_bead_count),
                       BoardState(board), initial_bead_count))
    /\ (pc = "box" /\ calls = 0 =>
          FreshlyBuilt(boxes[TheBox], BoardState(board), initial_bead_count))
    /\ (pc = "box" /\ calls = 1 /\ Len(game_history) = 1 =>
          FreshlyBuilt(boxes[TheBox], BoardState(board), initial_bead_count))

\* C12 witness: the engine has built a matchbox with two beads per move for a
\* board with one occupied cell
MatchboxBuiltForMarkedBoard ==
    /\ pc = "box"
    /\ calls = 0
    /\ initial_bead_count = 2
    /\ Marks(board) = 1
    /\ Len(boxes[TheBox].beads) = 16

\* C13: add_beads(m, c) on a move Empty in the matchbox's board state adds
\* exactly c to the count of m and changes no other count; on an occupied
\* move it fails with the illegal-move error and changes no count; and after
\* any sequence of add_beads and remove_beads calls the matchbox holds no
\* bead for a cell occupied in its board state.
AddBeadsContract ==
    pc = "box" =>
        LET matchbox == boxes[TheBox]
        IN  /\ \A move \in Moves, count \in 0..MaxCount :
                  LET added == add_beads(matchbox, move, count)
                  IN  IF get_cell(matchbox.board_state, move[1], move[2]) = EMPTY
                         THEN /\ added.ok
                              /\ get_bead_count(added.box, move)
                                    = get_bead_count(matchbox, move) + count
                              /\ \A other \in Moves \ {move} :
                                    get_bead_count(added.box, other)
                                        = get_bead_count(matchbox, other)
                         ELSE /\ ~added.ok
                              /\ \A other \in Moves :
                                    get_bead_count(added.box, other)
                                        = get_bead_count(matchbox, other)
            /\ \A move \in Moves :
                  get_cell(matchbox.board_state, move[1], move[2]) # EMPTY =>
                      get_bead_count(matchbox, move) = 0
            /\ (err = "IllegalMove" => Marks(matchbox.board_state) >= 1)

\* C13 witness: add_beads has added beads for an Empty cell and was then
\* refused for the occupied cell
AddedThenRefused ==
    /\ pc = "box"
    /\ calls = 2
    /\ err = "IllegalMove"
    /\ \E move \in Moves :
          get_bead_count(boxes[TheBox], move) = initial_bead_count + MaxCount

\* C14: remove_beads(m, c) never fails and clamps: a matchbox holding n beads
\* for m holds max(0, n - c) afterwards, none when n < c, and the count of
\* every other move is unchanged.
RemoveBeadsClamps ==
    (pc = "box" =>
          LET matchbox == boxes[TheBox]
          IN  \A move \in Moves, count \in 0..MaxCount :
                 LET n == get_bead_count(matchbox, move)
                     removed == remove_beads(matchbox, move, count)
                 IN  /\ get_bead_count(removed, move)
                           = (IF n - count > 0 THEN n - count ELSE 0)
                     /\ (n < count => get_bead_count(removed, move) = 0)
                     /\ \A other \in Moves \ {move} :
                           get_bead_count(removed, other)
                               = get_bead_count(matchbox, other)
                     /\ removed.board_state = matchbox.board_state)

\* C14 witness: two direct calls have left a matchbox built with one bead per
\* move one bead short, with no bead for one of its Empty cells and no error
RemovedDownToNone ==
    /\ pc = "box"
    /\ calls = 2
    /\ initial_bead_count = 1
    /\ game_history = <<>>
    /\ err = "none"
    /\ Len(boxes[TheBox].beads) = CountCells(board, EMPTY) - 1
    /\ \E move \in Moves :
          /\ get_cell(board, move[1], move[2]) = EMPTY
          /\ get_bead_count(boxes[TheBox], move) = 0

\* the lines of the grid, numbered as in Lines, that are uniformly O or
\* uniformly X
WonLines(grid) ==
    {n \in 1..8 : \/ \A i \in Idx : Lines(grid)[n][i] = O
                  \/ \A i \in Idx : Lines(grid)[n][i] = X}

\* C15: check_winner looks for a win before it looks for a draw: it reports
\* the owner of the first uniformly marked line in the order rows, columns,
\* diagonals (MENACE for O, opponent for X), hence MENACE when only O has a
\* line and opponent when only X has one; without such a line it reports
\* draw on a board without an Empty cell and None otherwise; a full board
\* with a line is reported as that win, never as a draw.
CheckWinnerFirstLine ==
    /\ (pc \in {"idle", "checked"} =>
          LET won == check_winner(board)
              lines == WonLines(board)
          IN  /\ IF lines # {}
                    THEN LET first == CHOOSE n \in lines : \A k \in lines : n <= k
                         IN  won = (IF Lines(board)[first][0] = O
                                       THEN "MENACE" ELSE "opponent")
                    ELSE won = (IF CountCells(board, EMPTY) = 0
                                   THEN "draw" ELSE "None")
              /\ (HasLine(board, O) /\ ~HasLine(board, X) => won = "MENACE")
              /\ (HasLine(board, X) /\ ~HasLine(board, O) => won = "opponent")
              /\ (lines # {} => won # "draw"))
    /\ (pc = "checked" => result = check_winner(board))

\* C15 as stated: an engine win whenever some line is uniformly O, an
\* opponent win if some line is uniformly X, otherwise draw or None
CheckWinnerEngineLineFirst ==
    pc = "checked" =>
        result = (IF HasLine(board, O) THEN "MENACE"
                  ELSE IF HasLine(board, X) THEN "opponent"
                  ELSE IF CountCells(board, EMPTY) = 0 THEN "draw"
                  ELSE "None")

\* C15 witness: check_winner has reported the engine's win on a board
\* without an Empty cell
FullBoardWinChecked ==
    /\ pc = "checked"
    /\ CountCells(board, EMPTY) = 0
    /\ HasLine(board, O)
    /\ ~HasLine(board, X)
    /\ result = "MENACE"

\* C16: every game starts with the engine's turn and the turns alternate
\* after each move: after n moves the engine has made the odd-numbered and
\* the opponent the even-numbered ones, the engine is to move exactly when n
\* is even, and the board holds as many O as X marks when the engine is to
\* move and one more O than X when the opponent is.
TurnsAlternate ==
    pc \in {"loop", "update"} =>
        /\ moves <= 9
        /\ CountCells(board, O) = (moves + 1) \div 2
        /\ CountCells(board, X) = moves \div 2
        /\ (pc = "loop" =>
              /\ current_player = (IF moves % 2 = 0 THEN "MENACE" ELSE "opponent")
              /\ (current_player = "MENACE" =>
                    CountCells(board, O) = CountCells(board, X))
              /\ (current_player = "opponent" =>
                    CountCells(board, O) = CountCells(board, X) + 1))
        /\ (pc = "update" =>
              current_player = (IF moves % 2 = 1 THEN "MENACE" ELSE "opponent"))

\* C16 witness: the engine has made the 9th move of a game
EngineMadeNinthMove ==
    /\ pc = "update"
    /\ moves = 9
    /\ current_player = "MENACE"
    /\ CountCells(board, O) = 5
    /\ CountCells(board, X) = 4

\* C17: a board of play_game never holds a line uniformly O together with a
\* line uniformly X, so all its uniformly marked lines belong to one player
\* and check_winner's result is the same in whichever order the 8 lines are
\* examined: MENACE exactly when O has a line, opponent exactly when X has.
\* While the loop runs no line is complete, and whichever Empty cell the
\* player to move marks, the board still holds lines of one player at most.
OneWinnerAtMost ==
    /\ ~(HasLine(board, O) /\ HasLine(board, X))
    /\ \A n \in WonLines(board), k \in WonLines(board) :
          Lines(board)[n][0] = Lines(board)[k][0]
    /\ (check_winner(board) = "MENACE" <=> HasLine(board, O))
    /\ (check_winner(board) = "opponent" <=> HasLine(board, X))
    /\ (pc = "loop" =>
          /\ ~HasLine(board, O) /\ ~HasLine(board, X)
          /\ \A move \in Moves :
                get_cell(board, move[1], move[2]) = EMPTY =>
                    LET grid == set_cell(board, move[1], move[2],
                                         IF current_player = "MENACE" THEN O ELSE X)
                    IN  ~(HasLine(grid, O) /\ HasLine(grid, X)))

\* C17 witness: the opponent has completed a line on a board where the
\* engine has three marks and no line
OpponentLineOnly ==
    /\ pc = "update"
    /\ result = "opponent"
    /\ HasLine(board, X)
    /\ CountCells(board, O) >= 3

\* C18: the matchboxes recorded in a game's history are pairwise distinct
\* and at most 5; update_learning handles each entry once: it changes the
\* count of a played (matchbox, move) pair by +1 on a win, by -1 or 0 on a
\* loss and by 0 on a draw, and leaves the count of every other move of
\* every matchbox, and the matchboxes themselves, as they were.
UpdateTouchesPlayedPairsOnce ==
    /\ (pc \in {"loop", "update"} =>
          /\ Len(game_history) <= 5
          /\ \A i \in 1..Len(game_history), j \in 1..Len(game_history) :
                i # j => game_history[i][1] # game_history[j][1])
    /\ (pc = "update" =>
          LET out == OutcomeOf(result)
              learnt == update_learning(boxes, game_history, out)
          IN  /\ learnt.ok
              /\ Len(learnt.boxes) = Len(boxes)
              /\ \A ref \in 1..Len(boxes) :
                    /\ learnt.boxes[ref].board_state = boxes[ref].board_state
                    /\ \A move \in Moves :
                          LET before == get_bead_count(boxes[ref], move)
                              after == get_bead_count(learnt.boxes[ref], move)
                              played == \E i \in 1..Len(game_history) :
                                            game_history[i] = <<ref, move>>
                          IN  IF ~played THEN after = before
                              ELSE IF out = 1 THEN after = before + 1
                              ELSE IF out = -1
                                      THEN after = (IF before > 1 THEN before - 1
                                                                  ELSE before)
                              ELSE after = before)

\* C18 witness: update_learning has handled the five entries of a game the
\* engine won with its 9th move
FiveEntriesLearnt ==
    /\ pc = "done"
    /\ updates = 1
    /\ moves = 9
    /\ result = "MENACE"
    /\ outcome = 1

\* C19: the engine never marks an occupied cell: a matchbox holds beads only
\* for cells Empty in its board state, every move choose_move can return on
\* the engine's turn is an Empty cell of the current board, every move
\* recorded in the history still shows the engine's mark, and the number of
\* non-Empty cells equals the number of moves made, one more per move.
EngineMarksEmptyCellsOnly ==
    /\ \A ref \in 1..Len(boxes), move \in Moves :
          get_bead_count(boxes[ref], move) >= 1 =>
              get_cell(boxes[ref].board_state, move[1], move[2]) = EMPTY
    /\ (pc \in {"loop", "update"} =>
          /\ Marks(board) = moves
          /\ \A i \in 1..Len(game_history) :
                get_cell(board, game_history[i][2][1], game_history[i][2][2]) = O)
    /\ (pc = "loop" /\ current_player = "MENACE" =>
          \A chosen \in choose_move(matchboxes, boxes, game_history,
                                    BoardState(board), initial_bead_count) :
             chosen.ok =>
                 /\ get_cell(board, chosen.move[1], chosen.move[2]) = EMPTY
                 /\ Marks(set_cell(board, chosen.move[1], chosen.move[2], O))
                       = Marks(board) + 1)

\* C19 witness: in the second game on the engine, the engine has marked its
\* third cell on a board holding two marks of the opponent
EngineMarkedThirdCell ==
    /\ games = 2
    /\ pc = "loop"
    /\ current_player = "opponent"
    /\ moves = 5
    /\ Marks(board) = 5
    /\ Len(game_history) = 3

\* C20: every key of the engine's mapping is a board state with the engine
\* to move (as many O as X marks, an Empty cell, no complete line of either
\* player), every matchbox is stored under the key equal to its own
\* board_state, and the move of every history entry is Empty in the board
\* state of the entry's matchbox.
MappingKeysAreEngineTurns ==
    /\ \A board_state \in DOMAIN matchboxes :
          /\ CountCells(board_state, O) = CountCells(board_state, X)
          /\ CountCells(board_state, EMPTY) >= 1
          /\ ~HasLine(board_state, O)
          /\ ~HasLine(board_state, X)
          /\ matchboxes[board_state] \in 1..Len(boxes)
          /\ boxes[matchboxes[board_state]].board_state = board_state
    /\ \A ref \in 1..Len(boxes) :
          /\ boxes[ref].board_state \in DOMAIN matchboxes
          /\ matchboxes[boxes[ref].board_state] = ref
    /\ \A i \in 1..Len(game_history) :
          /\ game_history[i][1] \in 1..Len(boxes)
          /\ LegalIn(boxes[game_history[i][1]], game_history[i][2])

\* C20 witness: two games have been played and the mapping holds the
\* matchboxes of both
TwoGamesOfMatchboxesKept ==
    /\ games = 2
    /\ pc = "done"
    /\ Len(boxes) = 5
    /\ Cardinality(DOMAIN matchboxes) = 5

====
